---- MODULE Spec2Model ----
(***************************************************************************)
(* QUIC variable-length integer codec (quinn-proto/src/varint.rs).         *)
(*                                                                         *)
(* Number representation.  TLC integers are 32 bits wide, so the Rust      *)
(* fixed-width integers are modelled by big-endian tuples of 16-bit limbs: *)
(*   u8, u16 : a natural number below 2^8, 2^16                            *)
(*   u32     : <<hi, lo>>            value hi*2^16 + lo                    *)
(*   u64     : <<l1, l2, l3, l4>>    value l1*2^48 + l2*2^32 + l3*2^16 + l4*)
(* Octet sequences (sink contents, cursor contents) are sequences of u8.   *)
(* Option<T> is a sequence of length 0 (None) or 1 (Some(v)).              *)
(***************************************************************************)
EXTENDS Integers, Sequences, FiniteSets, TLC

VARIABLES
    pc,                 \* position of the calling code
    x,                  \* the u64 handed to write
    w,                  \* the sink: [buf |-> octets written, rem |-> remaining_mut()]
    mark,               \* length of the sink before the call of write
    wres,               \* what write returned
    r,                  \* the cursor: [bytes |-> the octets, pos |-> octets consumed]
    rres,               \* what read returned
    debug_assertions,   \* whether the build has debug assertions (and overflow checks)
    a,                  \* a VarInt held by the caller (or NoVarInt)
    b,                  \* a second VarInt held by the caller (or NoVarInt)
    out                 \* the last VarInt-level call: <<operation, arguments.., outcome>>

vars == <<pc, x, w, mark, wres, r, rres, debug_assertions, a, b, out>>

(***************************************************************************)
(* Bounds of the model                                                     *)
(***************************************************************************)
\* largest remaining capacity a sink starts with
MaxCap == 9
\* longest octet sequence handed to read
MaxBufLen == 9

(***************************************************************************)
(* Fixed-width arithmetic                                                  *)
(***************************************************************************)
None == <<>>
Some(v) == <<v>>

RECURSIVE BitOr(_, _)
BitOr(m, n) ==
    IF m = 0 THEN n
    ELSE IF n = 0 THEN m
    ELSE (IF m % 2 = 1 \/ n % 2 = 1 THEN 1 ELSE 0) + 2 * BitOr(m \div 2, n \div 2)

RECURSIVE BitAnd(_, _)
BitAnd(m, n) ==
    IF m = 0 \/ n = 0 THEN 0
    ELSE (IF m % 2 = 1 /\ n % 2 = 1 THEN 1 ELSE 0) + 2 * BitAnd(m \div 2, n \div 2)

\* limb-wise | of two tuples of the same width
Or(m, n) == [i \in DOMAIN m |-> BitOr(m[i], n[i])]

\* 2u64.pow(k), k < 64
pow(k) == [i \in 1..4 |-> IF i = 4 - (k \div 16) THEN 2 ^ (k % 16) ELSE 0]

\* m < n on u64
Lt(m, n) ==
    \E i \in 1..4 : m[i] < n[i] /\ \A j \in 1..(i - 1) : m[j] = n[j]

Le(m, n) == m = n \/ Lt(m, n)

\* the u64 of a natural number below 2^31
U64(k) == <<0, 0, k \div 65536, k % 65536>>

\* m + n on u64, with the carry out of bit 63
AddCarry(m, n) ==
    LET s4 == m[4] + n[4]
        s3 == m[3] + n[3] + s4 \div 65536
        s2 == m[2] + n[2] + s3 \div 65536
        s1 == m[1] + n[1] + s2 \div 65536
    IN  [sum |-> <<s1 % 65536, s2 % 65536, s3 % 65536, s4 % 65536>>,
         carry |-> s1 \div 65536]

\* casts
as_u8(m) == m[4] % 256
as_u16(m) == m[4]
as_u32(m) == <<m[3], m[4]>>
u64_from_u8(i) == <<0, 0, 0, i>>
u64_from_u16(i) == <<0, 0, 0, i>>
u64_from_u32(i) == <<0, 0, i[1], i[2]>>

ONE_OCTET_MAX == U64(63)
TWO_OCTETS_MIN == AddCarry(ONE_OCTET_MAX, U64(1)).sum
TWO_OCTETS_MAX == U64(16383)
FOUR_OCTETS_MIN == AddCarry(TWO_OCTETS_MAX, U64(1)).sum
FOUR_OCTETS_MAX == U64(1073741823)
EIGHT_OCTETS_MIN == AddCarry(FOUR_OCTETS_MAX, U64(1)).sum
\* 4_611_686_018_427_387_903
EIGHT_OCTETS_MAX == <<16383, 65535, 65535, 65535>>

(***************************************************************************)
(* The sink (BufMut) and the cursor (Buf)                                  *)
(***************************************************************************)
remaining_mut(s) == s.rem

put(s, octets) == [buf |-> s.buf \o octets, rem |-> s.rem - Len(octets)]

put_u8(s, v) == put(s, <<v>>)

put_u16_be(s, v) == put(s, <<v \div 256, v % 256>>)

put_u32_be(s, v) ==
    put(s, <<v[1] \div 256, v[1] % 256, v[2] \div 256, v[2] % 256>>)

put_u64_be(s, v) ==
    put(s, <<v[1] \div 256, v[1] % 256, v[2] \div 256, v[2] % 256,
             v[3] \div 256, v[3] % 256, v[4] \div 256, v[4] % 256>>)

remaining(c) == Len(c.bytes) - c.pos

has_remaining(c) == remaining(c) > 0

\* the octet get_u8 returns; the cursor advances by one
get_u8(c) == c.bytes[c.pos + 1]

\* the k octets copy_to_slice copies; the cursor advances by k
copy_to_slice(c, k) == SubSeq(c.bytes, c.pos + 1, c.pos + k)

advance(c, k) == [c EXCEPT !.pos = @ + k]

\* BigEndian::read_u16 / read_u32 / read_u64 of the first octets of buf, as u64
read_u16(buf) == <<0, 0, 0, buf[1] * 256 + buf[2]>>

read_u32(buf) == <<0, 0, buf[1] * 256 + buf[2], buf[3] * 256 + buf[4]>>

read_u64(buf) ==
    <<buf[1] * 256 + buf[2], buf[3] * 256 + buf[4],
      buf[5] * 256 + buf[6], buf[7] * 256 + buf[8]>>

(***************************************************************************)
(* size, read, write                                                       *)
(***************************************************************************)
\* size with <= for < in every comparison
size_inclusive(v) ==
    IF Le(v, pow(6)) THEN Some(1)
    ELSE IF Le(v, pow(14)) THEN Some(2)
    ELSE IF Le(v, pow(30)) THEN Some(4)
    ELSE IF Le(v, pow(62)) THEN Some(8)
    ELSE None

size(v) ==
    IF Lt(v, pow(6)) THEN Some(1)
    ELSE IF Lt(v, pow(14)) THEN Some(2)
    ELSE IF Lt(v, pow(30)) THEN Some(4)
    ELSE IF Lt(v, pow(62)) THEN Some(8)
    ELSE None

\* read comparing remaining() with the total length of the encoding
read_total_len(c) ==
    IF ~has_remaining(c) THEN [val |-> None, r |-> c]
    ELSE
        LET b0  == get_u8(c)
            c1  == advance(c, 1)
            tag == b0 \div 64
            buf == [i \in 1..8 |-> IF i = 1 THEN BitAnd(b0, 63) ELSE 0]
            fill(k) == [i \in 1..8 |->
                          IF 2 <= i /\ i <= k
                          THEN copy_to_slice(c1, k - 1)[i - 1] ELSE buf[i]]
        IN  CASE tag = 0 -> [val |-> Some(u64_from_u8(buf[1])), r |-> c1]
              [] tag = 1 ->
                    IF remaining(c1) < 2 THEN [val |-> None, r |-> c1]
                    ELSE [val |-> Some(read_u16(fill(2))), r |-> advance(c1, 1)]
              [] tag = 2 ->
                    IF remaining(c1) < 4 THEN [val |-> None, r |-> c1]
                    ELSE [val |-> Some(read_u32(fill(4))), r |-> advance(c1, 3)]
              [] tag = 3 ->
                    IF remaining(c1) < 8 THEN [val |-> None, r |-> c1]
                    ELSE [val |-> Some(read_u64(fill(8))), r |-> advance(c1, 7)]

\* read draining a short buffer before it gives up
read_greedy(c) ==
    IF ~has_remaining(c) THEN [val |-> None, r |-> c]
    ELSE
        LET b0  == get_u8(c)
            c1  == advance(c, 1)
            tag == b0 \div 64
            buf == [i \in 1..8 |-> IF i = 1 THEN BitAnd(b0, 63) ELSE 0]
            fill(k) == [i \in 1..8 |->
                          IF 2 <= i /\ i <= k
                          THEN copy_to_slice(c1, k - 1)[i - 1] ELSE buf[i]]
        IN  CASE tag = 0 -> [val |-> Some(u64_from_u8(buf[1])), r |-> c1]
              [] tag = 1 ->
                    IF remaining(c1) < 1 THEN [val |-> None, r |-> advance(c1, remaining(c1))]
                    ELSE [val |-> Some(read_u16(fill(2))), r |-> advance(c1, 1)]
              [] tag = 2 ->
                    IF remaining(c1) < 3 THEN [val |-> None, r |-> advance(c1, remaining(c1))]
                    ELSE [val |-> Some(read_u32(fill(4))), r |-> advance(c1, 3)]
              [] tag = 3 ->
                    IF remaining(c1) < 7 THEN [val |-> None, r |-> advance(c1, remaining(c1))]
                    ELSE [val |-> Some(read_u64(fill(8))), r |-> advance(c1, 7)]

\* read without buf[0] &= 0b0011_1111
read_no_mask(c) ==
    IF ~has_remaining(c) THEN [val |-> None, r |-> c]
    ELSE
        LET b0  == get_u8(c)
            c1  == advance(c, 1)
            tag == b0 \div 64
            buf == [i \in 1..8 |-> IF i = 1 THEN b0 ELSE 0]
            fill(k) == [i \in 1..8 |->
                          IF 2 <= i /\ i <= k
                          THEN copy_to_slice(c1, k - 1)[i - 1] ELSE buf[i]]
        IN  CASE tag = 0 -> [val |-> Some(u64_from_u8(buf[1])), r |-> c1]
              [] tag = 1 ->
                    IF remaining(c1) < 1 THEN [val |-> None, r |-> c1]
                    ELSE [val |-> Some(read_u16(fill(2))), r |-> advance(c1, 1)]
              [] tag = 2 ->
                    IF remaining(c1) < 3 THEN [val |-> None, r |-> c1]
                    ELSE [val |-> Some(read_u32(fill(4))), r |-> advance(c1, 3)]
              [] tag = 3 ->
                    IF remaining(c1) < 7 THEN [val |-> None, r |-> c1]
                    ELSE [val |-> Some(read_u64(fill(8))), r |-> advance(c1, 7)]

\* the result: [val |-> the Option<u64> returned, r |-> the cursor afterwards]
read(c) ==
    IF ~has_remaining(c) THEN [val |-> None, r |-> c]
    ELSE
        LET b0  == get_u8(c)
            c1  == advance(c, 1)
            tag == b0 \div 64
            buf == [i \in 1..8 |-> IF i = 1 THEN BitAnd(b0, 63) ELSE 0]
            fill(k) == [i \in 1..8 |->
                          IF 2 <= i /\ i <= k
                          THEN copy_to_slice(c1, k - 1)[i - 1] ELSE buf[i]]
        IN  CASE tag = 0 -> [val |-> Some(u64_from_u8(buf[1])), r |-> c1]
              [] tag = 1 ->
                    IF remaining(c1) < 1 THEN [val |-> None, r |-> c1]
                    ELSE [val |-> Some(read_u16(fill(2))), r |-> advance(c1, 1)]
              [] tag = 2 ->
                    IF remaining(c1) < 3 THEN [val |-> None, r |-> c1]
                    ELSE [val |-> Some(read_u32(fill(4))), r |-> advance(c1, 3)]
              [] tag = 3 ->
                    IF remaining(c1) < 7 THEN [val |-> None, r |-> c1]
                    ELSE [val |-> Some(read_u64(fill(8))), r |-> advance(c1, 7)]

\* write tagging the four-octet class 0b11
write_wrong_tag(v, s) ==
    IF Lt(v, pow(6)) THEN
        IF remaining_mut(s) < 1 THEN [res |-> "InsufficientSpace", w |-> s]
        ELSE [res |-> "Ok", w |-> put_u8(s, as_u8(v))]
    ELSE IF Lt(v, pow(14)) THEN
        IF remaining_mut(s) < 2 THEN [res |-> "InsufficientSpace", w |-> s]
        ELSE [res |-> "Ok", w |-> put_u16_be(s, BitOr(16384, as_u16(v)))]
    ELSE IF Lt(v, pow(30)) THEN
        IF remaining_mut(s) < 4 THEN [res |-> "InsufficientSpace", w |-> s]
        ELSE [res |-> "Ok", w |-> put_u32_be(s, Or(<<49152, 0>>, as_u32(v)))]
    ELSE IF Lt(v, pow(62)) THEN
        IF remaining_mut(s) < 8 THEN [res |-> "InsufficientSpace", w |-> s]
        ELSE [res |-> "Ok", w |-> put_u64_be(s, Or(<<49152, 0, 0, 0>>, v))]
    ELSE [res |-> "OversizedValue", w |-> s]

\* write putting the integers in little-endian order
put_u16_le(s, v) == put(s, <<v % 256, v \div 256>>)

put_u32_le(s, v) ==
    put(s, <<v[2] % 256, v[2] \div 256, v[1] % 256, v[1] \div 256>>)

put_u64_le(s, v) ==
    put(s, <<v[4] % 256, v[4] \div 256, v[3] % 256, v[3] \div 256,
             v[2] % 256, v[2] \div 256, v[1] % 256, v[1] \div 256>>)

write_le(v, s) ==
    IF Lt(v, pow(6)) THEN
        IF remaining_mut(s) < 1 THEN [res |-> "InsufficientSpace", w |-> s]
        ELSE [res |-> "Ok", w |-> put_u8(s, as_u8(v))]
    ELSE IF Lt(v, pow(14)) THEN
        IF remaining_mut(s) < 2 THEN [res |-> "InsufficientSpace", w |-> s]
        ELSE [res |-> "Ok", w |-> put_u16_le(s, BitOr(16384, as_u16(v)))]
    ELSE IF Lt(v, pow(30)) THEN
        IF remaining_mut(s) < 4 THEN [res |-> "InsufficientSpace", w |-> s]
        ELSE [res |-> "Ok", w |-> put_u32_le(s, Or(<<32768, 0>>, as_u32(v)))]
    ELSE IF Lt(v, pow(62)) THEN
        IF remaining_mut(s) < 8 THEN [res |-> "InsufficientSpace", w |-> s]
        ELSE [res |-> "Ok", w |-> put_u64_le(s, Or(<<49152, 0, 0, 0>>, v))]
    ELSE [res |-> "OversizedValue", w |-> s]

\* write checking the space of the next smaller class
write_short_check(v, s) ==
    IF Lt(v, pow(6)) THEN
        IF remaining_mut(s) < 1 THEN [res |-> "InsufficientSpace", w |-> s]
        ELSE [res |-> "Ok", w |-> put_u8(s, as_u8(v))]
    ELSE IF Lt(v, pow(14)) THEN
        IF remaining_mut(s) < 1 THEN [res |-> "InsufficientSpace", w |-> s]
        ELSE [res |-> "Ok", w |-> put_u16_be(s, BitOr(16384, as_u16(v)))]
    ELSE IF Lt(v, pow(30)) THEN
        IF remaining_mut(s) < 4 THEN [res |-> "InsufficientSpace", w |-> s]
        ELSE [res |-> "Ok", w |-> put_u32_be(s, Or(<<32768, 0>>, as_u32(v)))]
    ELSE IF Lt(v, pow(62)) THEN
        IF remaining_mut(s) < 4 THEN [res |-> "InsufficientSpace", w |-> s]
        ELSE [res |-> "Ok", w |-> put_u64_be(s, Or(<<49152, 0, 0, 0>>, v))]
    ELSE [res |-> "OversizedValue", w |-> s]

\* write looking at the space before the range
write_space_first(v, s) ==
    IF remaining_mut(s) < 1 THEN [res |-> "InsufficientSpace", w |-> s]
    ELSE IF Lt(v, pow(6)) THEN
        IF remaining_mut(s) < 1 THEN [res |-> "InsufficientSpace", w |-> s]
        ELSE [res |-> "Ok", w |-> put_u8(s, as_u8(v))]
    ELSE IF Lt(v, pow(14)) THEN
        IF remaining_mut(s) < 2 THEN [res |-> "InsufficientSpace", w |-> s]
        ELSE [res |-> "Ok", w |-> put_u16_be(s, BitOr(16384, as_u16(v)))]
    ELSE IF Lt(v, pow(30)) THEN
        IF remaining_mut(s) < 4 THEN [res |-> "InsufficientSpace", w |-> s]
        ELSE [res |-> "Ok", w |-> put_u32_be(s, Or(<<32768, 0>>, as_u32(v)))]
    ELSE IF Lt(v, pow(62)) THEN
        IF remaining_mut(s) < 8 THEN [res |-> "InsufficientSpace", w |-> s]
        ELSE [res |-> "Ok", w |-> put_u64_be(s, Or(<<49152, 0, 0, 0>>, v))]
    ELSE [res |-> "OversizedValue", w |-> s]

\* the result: [res |-> "Ok" or the WriteError, w |-> the sink afterwards]
write(v, s) ==
    IF Lt(v, pow(6)) THEN
        IF remaining_mut(s) < 1 THEN [res |-> "InsufficientSpace", w |-> s]
        ELSE [res |-> "Ok", w |-> put_u8(s, as_u8(v))]
    ELSE IF Lt(v, pow(14)) THEN
        IF remaining_mut(s) < 2 THEN [res |-> "InsufficientSpace", w |-> s]
        ELSE [res |-> "Ok", w |-> put_u16_be(s, BitOr(16384, as_u16(v)))]
    ELSE IF Lt(v, pow(30)) THEN
        IF remaining_mut(s) < 4 THEN [res |-> "InsufficientSpace", w |-> s]
        ELSE [res |-> "Ok", w |-> put_u32_be(s, Or(<<32768, 0>>, as_u32(v)))]
    ELSE IF Lt(v, pow(62)) THEN
        IF remaining_mut(s) < 8 THEN [res |-> "InsufficientSpace", w |-> s]
        ELSE [res |-> "Ok", w |-> put_u64_be(s, Or(<<49152, 0, 0, 0>>, v))]
    ELSE [res |-> "OversizedValue", w |-> s]

(***************************************************************************)
(* VarInt                                                                  *)
(* A call either returns a value or panics (debug_assert!, unreachable!,   *)
(* arithmetic overflow in a build with overflow checks).                   *)
(***************************************************************************)
Panic == <<"panic">>
Ret(v) == <<"ok", v>>
panicked(o) == o[1] = "panic"

\* VarInt(m) is the struct with field 0 = m
VarInt(m) == [mag |-> m]

VarInt_size(self) ==
    IF Le(U64(0), self.mag) /\ Le(self.mag, ONE_OCTET_MAX) THEN Ret(1)
    ELSE IF Le(TWO_OCTETS_MIN, self.mag) /\ Le(self.mag, TWO_OCTETS_MAX) THEN Ret(2)
    ELSE IF Le(FOUR_OCTETS_MIN, self.mag) /\ Le(self.mag, FOUR_OCTETS_MAX) THEN Ret(4)
    ELSE IF Le(EIGHT_OCTETS_MIN, self.mag) /\ Le(self.mag, EIGHT_OCTETS_MAX) THEN Ret(8)
    ELSE Panic

u64_from_VarInt(v) == v.mag

From_u8(int) == Ret(VarInt(u64_from_u8(int)))

From_u16(int) == Ret(VarInt(u64_from_u16(int)))

From_u32(int) == Ret(VarInt(u64_from_u32(int)))

From_u64(int) ==
    IF debug_assertions /\ ~Le(int, EIGHT_OCTETS_MAX) THEN Panic
    ELSE Ret(VarInt(int))

\* int as u64: a usize is two limbs wide on a 32-bit target, four on a 64-bit one
usize_as_u64(int) ==
    [i \in 1..4 |-> IF i > 4 - Len(int) THEN int[i - (4 - Len(int))] ELSE 0]

From_usize(int) == From_u64(usize_as_u64(int))

\* self.0 + rhs.0 panics on overflow in a build with overflow checks (the
\* debug profile) and wraps otherwise
Add(self, rhs) ==
    LET s == AddCarry(self.mag, rhs.mag)
    IN  IF s.carry > 0 /\ debug_assertions THEN Panic
        ELSE From_u64(s.sum)

(***************************************************************************)
(* Inputs                                                                  *)
(***************************************************************************)
LimbVals == {0, 37, 63, 64, 16383, 16384, 65535}

\* 15293, 494878333, 151288809941952652 (the examples of the wire format)
Examples == {<<0, 0, 0, 15293>>, <<0, 0, 7551, 15997>>, <<537, 31838, 65300, 59532>>}

Inputs == [1..4 -> LimbVals] \cup Examples

Prefill == {<<>>, <<171>>}

FirstOctets == {0, 37, 63, 64, 123, 128, 157, 191, 192, 194, 255}

TailOctets == {0, 189, 255}

U8Inputs == {0, 63, 64, 255}

U16Inputs == {0, 16383, 16384, 65535}

U32Inputs == {<<0, 0>>, <<16383, 65535>>, <<16384, 0>>, <<65535, 65535>>}

U64Inputs ==
    {U64(0), U64(1), U64(63), U64(64), U64(16383), U64(16384),
     U64(1073741823), U64(1073741824), <<0, 1, 0, 0>>,
     <<8192, 0, 0, 0>>, <<16383, 65535, 65535, 65534>>, EIGHT_OCTETS_MAX,
     <<16384, 0, 0, 0>>, <<16384, 0, 0, 1>>, <<32768, 0, 0, 0>>,
     <<49152, 0, 0, 0>>, <<65535, 65535, 65535, 65535>>}

UsizeInputs == U32Inputs \cup U64Inputs

(***************************************************************************)
(* Write a value, then read back exactly the octets written                *)
(***************************************************************************)
IdleVarInt ==
    /\ debug_assertions = FALSE
    /\ a = None
    /\ b = None
    /\ out = <<"none">>

Init ==
    /\ pc = "write"
    /\ x \in Inputs
    /\ \E pre \in Prefill, c \in 0..MaxCap :
          /\ w = [buf |-> pre, rem |-> c]
          /\ mark = Len(pre)
    /\ wres = "none"
    /\ r = [bytes |-> <<>>, pos |-> 0]
    /\ rres = None
    /\ IdleVarInt

WriteStep ==
    /\ pc = "write"
    /\ LET o == write(x, w)
       IN  /\ wres' = o.res
           /\ w' = o.w
    /\ pc' = "written"
    /\ UNCHANGED <<x, mark, r, rres, debug_assertions, a, b, out>>

\* the octets written become the content of a fresh cursor
FlipStep ==
    /\ pc = "written"
    /\ wres = "Ok"
    /\ r' = [bytes |-> SubSeq(w.buf, mark + 1, Len(w.buf)), pos |-> 0]
    /\ pc' = "read"
    /\ UNCHANGED <<x, w, mark, wres, rres, debug_assertions, a, b, out>>

ReadStep ==
    /\ pc = "read"
    /\ LET o == read(r)
       IN  /\ rres' = o.val
           /\ r' = o.r
    /\ pc' = "done"
    /\ UNCHANGED <<x, w, mark, wres, debug_assertions, a, b, out>>

Next == WriteStep \/ FlipStep \/ ReadStep

Spec == Init /\ [][Next]_vars

(***************************************************************************)
(* Read an arbitrary octet sequence, then write the value read             *)
(***************************************************************************)
InitRead ==
    /\ pc = "read"
    /\ x = U64(0)
    /\ w = [buf |-> <<>>, rem |-> 8]
    /\ mark = 0
    /\ wres = "none"
    /\ \/ r = [bytes |-> <<>>, pos |-> 0]
       \/ \E k \in 0..(MaxBufLen - 1) :
             \E f \in FirstOctets, t \in [1..k -> TailOctets] :
                r = [bytes |-> <<f>> \o t, pos |-> 0]
    /\ rres = None
    /\ IdleVarInt

ReEncodeStep ==
    /\ pc = "done"
    /\ rres # None
    /\ x' = rres[1]
    /\ LET o == write(rres[1], w)
       IN  /\ wres' = o.res
           /\ w' = o.w
    /\ pc' = "reencoded"
    /\ UNCHANGED <<mark, r, rres, debug_assertions, a, b, out>>

NextRead == ReadStep \/ ReEncodeStep

SpecRead == InitRead /\ [][NextRead]_vars

(***************************************************************************)
(* VarInt construction, size and addition                                  *)
(***************************************************************************)
InitVarInt ==
    /\ pc = "varint"
    /\ x = U64(0)
    /\ w = [buf |-> <<>>, rem |-> 0]
    /\ mark = 0
    /\ wres = "none"
    /\ r = [bytes |-> <<>>, pos |-> 0]
    /\ rres = None
    /\ debug_assertions \in BOOLEAN
    /\ a = None
    /\ b = None
    /\ out = <<"none">>

\* the caller keeps the VarInt a conversion returned; a panic ends the thread
Construct(op, int, o) ==
    /\ pc = "varint"
    /\ out' = <<op, int, o>>
    /\ IF panicked(o)
       THEN pc' = "panicked" /\ UNCHANGED <<a, b>>
       ELSE /\ pc' = pc
            /\ \/ a' = Some(o[2]) /\ UNCHANGED b
               \/ b' = Some(o[2]) /\ UNCHANGED a
    /\ UNCHANGED <<x, w, mark, wres, r, rres, debug_assertions>>

FromU8Step == \E int \in U8Inputs : Construct("from_u8", int, From_u8(int))

FromU16Step == \E int \in U16Inputs : Construct("from_u16", int, From_u16(int))

FromU32Step == \E int \in U32Inputs : Construct("from_u32", int, From_u32(int))

FromU64Step == \E int \in U64Inputs : Construct("from_u64", int, From_u64(int))

FromUsizeStep ==
    \E int \in UsizeInputs : Construct("from_usize", usize_as_u64(int), From_usize(int))

SizeStep ==
    /\ pc = "varint"
    /\ \E int \in U64Inputs : out' = <<"size", int, size(int)>>
    /\ UNCHANGED <<pc, x, w, mark, wres, r, rres, debug_assertions, a, b>>

VarIntSizeStep ==
    /\ pc = "varint"
    /\ a # None
    /\ LET o == VarInt_size(a[1])
       IN  /\ out' = <<"VarInt::size", a[1], o>>
           /\ pc' = IF panicked(o) THEN "panicked" ELSE pc
    /\ UNCHANGED <<x, w, mark, wres, r, rres, debug_assertions, a, b>>

AddStep ==
    /\ pc = "varint"
    /\ a # None
    /\ b # None
    /\ LET o == Add(a[1], b[1])
       IN  /\ out' = <<"add", a[1], b[1], o>>
           /\ pc' = IF panicked(o) THEN "panicked" ELSE pc
    /\ UNCHANGED <<x, w, mark, wres, r, rres, debug_assertions, a, b>>

NextVarInt ==
    \/ FromU8Step
    \/ FromU16Step
    \/ FromU32Step
    \/ FromU64Step
    \/ FromUsizeStep
    \/ SizeStep
    \/ VarIntSizeStep
    \/ AddStep

SpecVarInt == InitVarInt /\ [][NextVarInt]_vars

(***************************************************************************)
(* The wire format as the specification states it                          *)
(***************************************************************************)
\* 2^62 = 4611686018427387904
TwoPow62 == <<16384, 0, 0, 0>>

\* the table of length classes: octet count of a magnitude, None from 2^62 on
ClassOctets(n) ==
    IF Le(U64(0), n) /\ Le(n, U64(63)) THEN Some(1)
    ELSE IF Le(U64(64), n) /\ Le(n, U64(16383)) THEN Some(2)
    ELSE IF Le(U64(16384), n) /\ Le(n, U64(1073741823)) THEN Some(4)
    ELSE IF Le(U64(1073741824), n) /\ Le(n, EIGHT_OCTETS_MAX) THEN Some(8)
    ELSE IF Le(TwoPow62, n) THEN None
    ELSE Some(0)

\* total length announced by the two most significant bits of a first octet
TagLen(octet) ==
    CASE octet \div 64 = 0 -> 1
      [] octet \div 64 = 1 -> 2
      [] octet \div 64 = 2 -> 4
      [] octet \div 64 = 3 -> 8

\* the magnitude a sequence of at most 8 octets denotes in big-endian order
ValueOf(octets) ==
    LET k == 8 - Len(octets)
        p == [i \in 1..8 |-> IF i <= k THEN 0 ELSE octets[i - k]]
    IN  <<p[1] * 256 + p[2], p[3] * 256 + p[4], p[5] * 256 + p[6], p[7] * 256 + p[8]>>

\* an encoding with the tag bits of its first octet cleared
Payload(octets) == [octets EXCEPT ![1] = @ % 64]

\* the octets the sink holds beyond the mark
Written == SubSeq(w.buf, mark + 1, Len(w.buf))

\* the remaining capacity the sink had at the mark
CapacityAtMark == w.rem + Len(w.buf) - mark

WriteReturns == pc = "write" /\ pc' = "written"

(***************************************************************************)
(* Claims                                                                  *)
(***************************************************************************)
\* C1: round trip.  For every x <= 2^62-1, write(x, w) on a sink with enough
\* capacity succeeds, and read on exactly the octets written returns Some(x)
\* (the class boundaries and 2^62-1 are among the inputs).
C1_RoundTrip ==
    /\ (pc = "written" /\ Le(x, EIGHT_OCTETS_MAX) /\ CapacityAtMark >= 8) => wres = "Ok"
    /\ pc = "done" => (wres = "Ok" /\ Le(x, EIGHT_OCTETS_MAX) /\ rres = Some(x))

C1_Witness ==
    /\ pc = "done"
    /\ x = EIGHT_OCTETS_MAX
    /\ rres = Some(x)

\* C2: wire format.  A successful write of x appends exactly 1, 2, 4 or 8
\* octets according to the class of x; the two most significant bits of the
\* first octet announce that length and the other bits are x in big-endian
\* order; 37 is written as [0x25] and 15293 as [0x7B, 0xBD].
C2_WireFormat ==
    [][(WriteReturns /\ wres' = "Ok") =>
          LET enc == SubSeq(w'.buf, Len(w.buf) + 1, Len(w'.buf))
          IN  /\ Le(x, EIGHT_OCTETS_MAX)
              /\ SubSeq(w'.buf, 1, Len(w.buf)) = w.buf
              /\ Some(Len(enc)) = ClassOctets(x)
              /\ w'.rem = w.rem - Len(enc)
              /\ TagLen(enc[1]) = Len(enc)
              /\ ValueOf(Payload(enc)) = x
              /\ (x = U64(37) => enc = <<37>>)
              /\ (x = U64(15293) => enc = <<123, 189>>)]_vars

C2_Witness ==
    /\ pc = "written"
    /\ wres = "Ok"
    /\ x = U64(15293)
    /\ mark = 1
    /\ Written = <<123, 189>>

\* C4: for every x <= 2^62-1 and every sink whose remaining capacity is below
\* the octet count of x, write returns InsufficientSpace and the sink is as
\* it was: no octet written, the same remaining capacity.
C4_InsufficientSpace ==
    [][(WriteReturns /\ Le(x, EIGHT_OCTETS_MAX) /\ w.rem < ClassOctets(x)[1]) =>
          (wres' = "InsufficientSpace" /\ w' = w)]_vars

C4_Witness ==
    /\ pc = "written"
    /\ wres = "InsufficientSpace"
    /\ ClassOctets(x) = Some(8)
    /\ w.rem = 7
    /\ Written = <<>>

\* C5: for every x >= 2^62, write returns OversizedValue whatever the
\* remaining capacity of the sink is, 0 included, and the sink is as it was.
C5_OversizedValue ==
    [][(WriteReturns /\ Le(TwoPow62, x)) =>
          (wres' = "OversizedValue" /\ w' = w)]_vars

C5_Witness ==
    /\ pc = "written"
    /\ wres = "OversizedValue"
    /\ x = TwoPow62
    /\ w.rem = 0
    /\ Written = <<>>

\* C6: read returns None exactly when the buffer is empty or its first octet
\* announces a length L in {2, 4, 8} and fewer than L-1 octets follow it.
TooShort(octets) ==
    \/ Len(octets) = 0
    \/ Len(octets) - 1 < TagLen(octets[1]) - 1

C6_NoneIffShort ==
    pc # "read" => (rres = None <=> TooShort(r.bytes))

C6_Witness ==
    /\ pc = "done"
    /\ rres = None
    /\ Len(r.bytes) = 7
    /\ TagLen(r.bytes[1]) = 8

\* C7: a successful read has consumed exactly the announced length, a read of
\* an empty buffer nothing, and a read that fails on a short buffer exactly
\* the first octet.
C7_CursorEffect ==
    pc # "read" =>
        /\ rres # None => r.pos = TagLen(r.bytes[1])
        /\ (rres = None /\ Len(r.bytes) = 0) => r.pos = 0
        /\ (rres = None /\ Len(r.bytes) > 0) => r.pos = 1

C7_Witness ==
    /\ pc = "done"
    /\ rres = None
    /\ Len(r.bytes) = 3
    /\ TagLen(r.bytes[1]) = 4
    /\ r.pos = 1

\* C10: read accepts encodings that are not minimal.  Every sequence of L
\* octets whose first octet announces L decodes to the value of its 6, 14, 30
\* or 62 payload bits, however small; every value read is <= 2^62-1, and
\* writing it again never takes more octets than were read, sometimes fewer.
C10_NonMinimal ==
    /\ (pc # "read" /\ rres # None) =>
          /\ rres[1] = ValueOf(Payload(SubSeq(r.bytes, 1, TagLen(r.bytes[1]))))
          /\ Le(rres[1], EIGHT_OCTETS_MAX)
    /\ pc = "reencoded" => (wres = "Ok" /\ Len(w.buf) <= r.pos)

C10_Witness ==
    /\ pc = "reencoded"
    /\ r.pos = 8
    /\ rres = Some(U64(255))
    /\ w.buf = <<64, 255>>

\* C3: size(x) is Some(1) for 0..63, Some(2) for 64..16383, Some(4) for
\* 16384..1073741823, Some(8) for 1073741824..2^62-1 and None from 2^62 on;
\* VarInt::size() of a VarInt holding m <= 2^62-1 is the octet count of size(m).
C3_Size ==
    /\ out[1] = "size" => out[3] = ClassOctets(out[2])
    /\ (out[1] = "VarInt::size" /\ Le(out[2].mag, EIGHT_OCTETS_MAX)) =>
          /\ out[3] = Ret(size(out[2].mag)[1])
          /\ Some(out[3][2]) = ClassOctets(out[2].mag)

C3_Witness ==
    /\ out[1] = "VarInt::size"
    /\ out[2] = VarInt(U64(1073741824))
    /\ out[3] = Ret(8)

\* C8: a VarInt is constructed from a u64 or a usize iff n <= 2^62-1, the
\* construction fails without a value otherwise, so no VarInt holds more
\* than 2^62-1; construction from u8, u16 and u32 always succeeds.
C8_CheckedConstruction ==
    /\ out[1] \in {"from_u64", "from_usize"} =>
          (panicked(out[3]) <=> ~Le(out[2], EIGHT_OCTETS_MAX))
    /\ out[1] \in {"from_u8", "from_u16", "from_u32"} => ~panicked(out[3])
    /\ a # None => Le(a[1].mag, EIGHT_OCTETS_MAX)
    /\ b # None => Le(b[1].mag, EIGHT_OCTETS_MAX)

\* C9: the sum of two VarInts within the range is a VarInt holding the exact
\* sum when that is <= 2^62-1 and a failure, never a value, when it is more.
C9_CheckedAdd ==
    (/\ out[1] = "add"
     /\ Le(out[2].mag, EIGHT_OCTETS_MAX)
     /\ Le(out[3].mag, EIGHT_OCTETS_MAX)) =>
        LET s == AddCarry(out[2].mag, out[3].mag)
        IN  IF s.carry = 0 /\ Le(s.sum, EIGHT_OCTETS_MAX)
            THEN out[4] = Ret(VarInt(s.sum))
            ELSE panicked(out[4])

====
